---- MODULE Spec2Model ----
(***************************************************************************)
(* A model of src/destructiveclip.py (the Inkscape extension "Destructive  *)
(* clip").  Python floats are modelled as exact rationals <<num, den>>     *)
(* (den > 0, lowest terms); rounding error is not modelled.  A Python list *)
(* of numbers (a point, or the argument list of a path command) is a       *)
(* sequence of rationals; a line segment is <<from, to>>.                  *)
(***************************************************************************)
EXTENDS Integers, Sequences, FiniteSets, TLC

VARIABLES
    mode,                    \* which routine of the program this behaviour runs
    \* ---- effect() ----
    doc0,                    \* the selection as handed to effect(): sequence of nodes
    doc,                     \* the selection with the 'd' attributes as modified so far
    idx,                     \* number of ids of self.options.ids already processed
    clipping_line_segments,  \* None, or the segments of the clipper
    error_messages,          \* self.error_messages
    emitted,                 \* what inkex.errormsg has been called with, in order
    pc,                      \* "loop", "done", "exited" (sys.exit), "crashed" (uncaught)
    \* ---- simple_path_to_line_segments(), line by line ----
    seg_path, seg_k, seg_st,
    \* ---- line_segments_to_simple_path(), line by line ----
    bld_segs, bld_k, bld_st,
    \* ---- clip_line_segments() / clip_line(), line by line ----
    clp_S, clp_B, clp_round, clp_li, clp_bi, lines_write, clipped_lines, clp_first, clp_pc

vars == <<mode, doc0, doc, idx, clipping_line_segments, error_messages, emitted, pc,
          seg_path, seg_k, seg_st, bld_segs, bld_k, bld_st,
          clp_S, clp_B, clp_round, clp_li, clp_bi, lines_write, clipped_lines,
          clp_first, clp_pc>>

effectVars == <<doc0, doc, idx, clipping_line_segments, error_messages, emitted, pc>>
segVars == <<seg_path, seg_k, seg_st>>
bldVars == <<bld_segs, bld_k, bld_st>>
clpVars == <<clp_S, clp_B, clp_round, clp_li, clp_bi, lines_write, clipped_lines,
             clp_first, clp_pc>>

(***************************************************************************)
(* Exact rational arithmetic standing for Python float arithmetic.         *)
(* An intermediate value that the code names (a local variable) is a       *)
(* parameter of the operator that continues the computation.               *)
(***************************************************************************)
RECURSIVE Gcd(_, _)
Gcd(a, b) == IF b = 0 THEN a ELSE Gcd(b, a % b)

IAbs(n) == IF n < 0 THEN -n ELSE n

Reduce(n, d, g) == IF d < 0 THEN <<(-n) \div g, (-d) \div g>> ELSE <<n \div g, d \div g>>
Norm(n, d) == Reduce(n, d, Gcd(IAbs(n), IAbs(d)))

R(n) == <<n, 1>>
Q(n, d) == Norm(n, d)
Zero == R(0)
One == R(1)
Two == R(2)

\* over the least common denominator, to keep the integers small
AddOver(a, b, g) ==
    Norm(a[1] * (b[2] \div g) + b[1] * (a[2] \div g), (a[2] \div g) * b[2])
RAdd(a, b) == AddOver(a, b, Gcd(a[2], b[2]))
RNeg(a) == <<-a[1], a[2]>>
RSub(a, b) == RAdd(a, RNeg(b))
RMul(a, b) == Norm(a[1] * b[1], a[2] * b[2])
RDiv(a, b) == Norm(a[1] * b[2], a[2] * b[1])
RLe(a, b) == a[1] * b[2] <= b[1] * a[2]
RLt(a, b) == a[1] * b[2] < b[1] * a[2]
RAbs(a) == <<IAbs(a[1]), a[2]>>
RMax(a, b) == IF RLt(a, b) THEN b ELSE a

Pt(x, y) == <<R(x), R(y)>>

(***************************************************************************)
(* Results of routines that can raise: "ok" with a value, "exit" for the   *)
(* sys.exit() of line_intersection, "crash" for an uncaught IndexError.    *)
(***************************************************************************)
Ok(v) == [st |-> "ok", v |-> v]
Exit == [st |-> "exit", v |-> <<>>]
Crash == [st |-> "crash", v |-> <<>>]
None == <<>>

\* self.TOLERANCE = 0.0001
TOLERANCE == <<1, 10000>>

approx_equal(a, b) == RLe(RAbs(RSub(a, b)), TOLERANCE)

\* callers have checked that both endpoints have two components
mid_point(line) ==
    <<RDiv(RAdd(line[1][1], line[2][1]), Two), RDiv(RAdd(line[1][2], line[2][2]), Two)>>

RECURSIVE max_x_from(_, _, _)
max_x_from(line_segments, k, maxx) ==
    IF k > Len(line_segments) THEN Ok(maxx)
    ELSE IF Len(line_segments[k][1]) < 1 \/ Len(line_segments[k][2]) < 1 THEN Crash
    ELSE max_x_from(line_segments, k + 1,
                    RMax(RMax(maxx, line_segments[k][1][1]), line_segments[k][2][1]))

max_x(line_segments) == max_x_from(line_segments, 1, Zero)

\* lines 152-153, with s and t computed
intersection_at(l1_from, d_l1, s, t) ==
    IF RLe(Zero, s) /\ RLe(s, One) /\ RLe(Zero, t) /\ RLe(t, One)
    THEN Ok(<<RAdd(l1_from[1], RMul(t, d_l1[1])), RAdd(l1_from[2], RMul(t, d_l1[2]))>>)
    ELSE Ok(None)

\* lines 149-155, with the denominator computed
intersection_by(l1_from, d_l1, d_l2, dx, dy, denominator) ==
    IF ~approx_equal(denominator, Zero)
    THEN intersection_at(l1_from, d_l1,
             RDiv(RAdd(RMul(RNeg(d_l1[2]), dx), RMul(d_l1[1], dy)), denominator),
             RDiv(RSub(RMul(d_l2[1], dy), RMul(d_l2[2], dx)), denominator))
    ELSE Ok(None)

\* lines 148-155, with d_l1 and d_l2 computed
intersection_of(l1_from, l2_from, d_l1, d_l2) ==
    intersection_by(l1_from, d_l1, d_l2,
                    RSub(l1_from[1], l2_from[1]), RSub(l1_from[2], l2_from[2]),
                    RAdd(RMul(RNeg(d_l2[1]), d_l1[2]), RMul(d_l1[1], d_l2[2])))

line_intersection_swallow(l1_from, l1_to, l2_from, l2_to) ==
    IF Len(l1_to) < 2 \/ Len(l1_from) < 2 \/ Len(l2_to) < 2 \/ Len(l2_from) < 2
    THEN Ok(None)
    ELSE intersection_of(l1_from, l2_from,
             <<RSub(l1_to[1], l1_from[1]), RSub(l1_to[2], l1_from[2])>>,
             <<RSub(l2_to[1], l2_from[1]), RSub(l2_to[2], l2_from[2])>>)

\* lines 141-155
line_intersection(l1_from, l1_to, l2_from, l2_to) ==
    IF Len(l1_to) < 2 \/ Len(l1_from) < 2 \/ Len(l2_to) < 2 \/ Len(l2_from) < 2
    THEN Exit  \* IndexError: inkex.errormsg(self.curve_error); sys.exit()
    ELSE intersection_of(l1_from, l2_from,
             <<RSub(l1_to[1], l1_from[1]), RSub(l1_to[2], l1_from[2])>>,
             <<RSub(l2_to[1], l2_from[1]), RSub(l2_to[2], l2_from[2])>>)

RECURSIVE crossings_from(_, _, _, _)
RECURSIVE crossings_next(_, _, _, _, _)
\* lines 171-173
crossings_from(ray, line_segments, k, crossings) ==
    IF k > Len(line_segments) THEN Ok(crossings)
    ELSE crossings_next(line_intersection(line_segments[k][1], line_segments[k][2],
                                          ray[1], ray[2]),
                        ray, line_segments, k, crossings)

crossings_next(r, ray, line_segments, k, crossings) ==
    IF r.st # "ok" THEN r
    ELSE crossings_from(ray, line_segments, k + 1,
                        IF r.v # None THEN crossings + 1 ELSE crossings)

\* line 174
odd_crossings(c) == IF c.st # "ok" THEN c ELSE Ok((c.v % 2) = 1)

inside_region(point, line_segments, line_segments_max_x) ==
    odd_crossings(crossings_from(<<point, <<RMul(line_segments_max_x, Two), point[2]>>>>,
                                 line_segments, 1, 0))

WellFormedSeg(line) == Len(line[1]) >= 2 /\ Len(line[2]) >= 2

RECURSIVE cull_from(_, _, _, _, _)
RECURSIVE cull_next(_, _, _, _, _, _)
\* lines 189-191
cull_from(segmented_line, line_segments, line_segments_max_x, k, culled) ==
    IF k > Len(segmented_line) THEN Ok(culled)
    ELSE IF ~WellFormedSeg(segmented_line[k]) THEN Crash  \* IndexError in mid_point
    ELSE cull_next(inside_region(mid_point(segmented_line[k]), line_segments,
                                 line_segments_max_x),
                   segmented_line, line_segments, line_segments_max_x, k, culled)

cull_next(r, segmented_line, line_segments, line_segments_max_x, k, culled) ==
    IF r.st # "ok" THEN r
    ELSE cull_from(segmented_line, line_segments, line_segments_max_x, k + 1,
                   IF r.v THEN Append(culled, segmented_line[k]) ELSE culled)

cull_segmented_line(segmented_line, line_segments, line_segments_max_x) ==
    cull_from(segmented_line, line_segments, line_segments_max_x, 1, <<>>)

RECURSIVE split_from(_, _, _, _)
RECURSIVE split_next(_, _, _, _, _)
\* lines 209-215, the inner loop of clip_line: every line of lines_read
\* against one segment
split_from(lines_read, segment, k, out) ==
    IF k > Len(lines_read) THEN Ok(out)
    ELSE split_next(line_intersection(lines_read[k][1], lines_read[k][2],
                                      segment[1], segment[2]),
                    lines_read, segment, k, out)

split_next(intersect, lines_read, segment, k, out) ==
    IF intersect.st # "ok" THEN intersect
    ELSE IF intersect.v = None
    THEN split_from(lines_read, segment, k + 1, Append(out, lines_read[k]))
    ELSE split_from(lines_read, segment, k + 1,
                    out \o << <<lines_read[k][1], intersect.v>>,
                              <<intersect.v, lines_read[k][2]>> >>)

\* lines 207-215, one iteration of the outer loop of clip_line
clip_line_step(lines_read, segment) == split_from(lines_read, segment, 1, <<>>)

RECURSIVE clip_line_from(_, _, _)
RECURSIVE clip_line_next(_, _, _)
clip_line_from(lines, line_segments, k) ==
    IF k > Len(line_segments) THEN Ok(lines)
    ELSE clip_line_next(clip_line_step(lines, line_segments[k]), line_segments, k)

clip_line_next(r, line_segments, k) ==
    IF r.st # "ok" THEN r ELSE clip_line_from(r.v, line_segments, k + 1)

clip_line(line, line_segments) == clip_line_from(<<line>>, line_segments, 1)

\* line 230, once clip_line has returned: max_x is evaluated, then
\* cull_segmented_line is entered
cull_with(split, clipping_line_segments_, m) ==
    IF m.st # "ok" THEN m ELSE cull_segmented_line(split, clipping_line_segments_, m.v)

cull_one(split, clipping_line_segments_) ==
    cull_with(split, clipping_line_segments_, max_x(clipping_line_segments_))

RECURSIVE clip_from(_, _, _, _)
RECURSIVE clip_culled(_, _, _, _, _)
RECURSIVE clip_split(_, _, _, _, _)
\* lines 229-230
clip_from(line_segments_to_clip, clipping_line_segments_, k, acc) ==
    IF k > Len(line_segments_to_clip) THEN Ok(acc)
    ELSE clip_split(clip_line(line_segments_to_clip[k], clipping_line_segments_),
                    line_segments_to_clip, clipping_line_segments_, k, acc)

clip_split(s, line_segments_to_clip, clipping_line_segments_, k, acc) ==
    IF s.st # "ok" THEN s
    ELSE clip_culled(cull_one(s.v, clipping_line_segments_),
                     line_segments_to_clip, clipping_line_segments_, k, acc)

clip_culled(c, line_segments_to_clip, clipping_line_segments_, k, acc) ==
    IF c.st # "ok" THEN c
    ELSE clip_from(line_segments_to_clip, clipping_line_segments_, k + 1, acc \o c.v)

clip_line_segments(line_segments_to_clip, clipping_line_segments_) ==
    clip_from(line_segments_to_clip, clipping_line_segments_, 1, <<>>)

(***************************************************************************)
(* simple_path_to_line_segments.  A path is the output of                  *)
(* node.path.to_arrays(): a sequence of [cmd, args].  The state of the     *)
(* loop is [line_segments, first, prev, errors].  Path data is empty or    *)
(* begins with a moveto (SVG path data must), so the first command rebinds *)
(* `first` and `prev`, which line 96 binds to the list line_segments.      *)
(***************************************************************************)
Cmd(c, a) == [cmd |-> c, args |-> a]

CurveMsg == "Curve node detected (svg type C), this node will be handled as a regular node"
InvalidMsg(c) == "Invalid node type detected: " \o c

SegInit == [line_segments |-> <<>>, first |-> <<>>, prev |-> <<>>, errors |-> {}]

SegStep(st, c) ==
    LET this == c.args
    IN  CASE c.cmd = "M" ->
               [st EXCEPT !.first = IF st.first = <<>> THEN this ELSE st.first,
                          !.prev = this]
          [] c.cmd = "L" ->
               [st EXCEPT !.line_segments = Append(@, <<st.prev, this>>),
                          !.prev = this]
          [] c.cmd = "Z" ->
               [st EXCEPT !.line_segments = Append(@, <<st.prev, st.first>>),
                          !.first = <<>>,
                          !.prev = this]
          [] c.cmd = "C" ->
               [st EXCEPT !.line_segments = Append(@, <<st.prev, <<this[5], this[6]>>>>),
                          !.errors = @ \cup {CurveMsg},
                          !.prev = this]
          [] OTHER ->
               [st EXCEPT !.errors = @ \cup {InvalidMsg(c.cmd)},
                          !.prev = this]

RECURSIVE seg_from(_, _, _)
seg_from(path, k, st) ==
    IF k > Len(path) THEN st ELSE seg_from(path, k + 1, SegStep(st, path[k]))

\* returns the record whose .line_segments and .errors are the returned tuple
simple_path_to_line_segments(path) == seg_from(path, 1, SegInit)

(***************************************************************************)
(* line_segments_to_simple_path.  The state of the loop is                 *)
(* [path, has_end, end]; has_end = FALSE stands for end = None.            *)
(***************************************************************************)
BuildInit == [path |-> <<>>, has_end |-> FALSE, end |-> <<>>]

NeedsMoveExact(st, start) ==
    IF ~st.has_end THEN TRUE ELSE st.end # start

\* line 130; Python's `or` does not look at end when end is None
NeedsMove(st, start) ==
    IF ~st.has_end THEN TRUE
    ELSE ~(approx_equal(st.end[1], start[1]) /\ approx_equal(st.end[2], start[2]))

BuildStep(st, line) ==
    LET start == line[1]
        moved == IF NeedsMove(st, start)
                 THEN Append(st.path, Cmd("M", start)) ELSE st.path
    IN  [path |-> Append(moved, Cmd("L", line[2])), has_end |-> TRUE, end |-> line[2]]

RECURSIVE build_from(_, _, _)
build_from(line_segments, k, st) ==
    IF k > Len(line_segments) THEN st
    ELSE build_from(line_segments, k + 1, BuildStep(st, line_segments[k]))

line_segments_to_simple_path(line_segments) ==
    build_from(line_segments, 1, BuildInit).path


(***************************************************************************)
(* Bounds of the model.                                                    *)
(***************************************************************************)
MaxSel == 3      \* longest selection handed to effect()
MaxCmds == 4     \* longest path handed to simple_path_to_line_segments alone
MaxSegs == 2     \* longest segment list handed to line_segments_to_simple_path alone
MaxSubj == 2     \* longest subject handed to clip_line_segments alone

Range(f) == {f[i] : i \in DOMAIN f}
SeqsUpTo(S, n) == UNION {[1..m -> S] : m \in 0..n}
\* every order in which a Python set can be iterated
Orders(S) == {f \in [1..Cardinality(S) -> S] : Range(f) = S}

(***************************************************************************)
(* effect().  A node of the selection is [tag, d]: its tag and the arrays  *)
(* of its path data (node.path.to_arrays(); the text form of the 'd'       *)
(* attribute is not modelled).  The id of a node is its position in        *)
(* self.options.ids.                                                       *)
(***************************************************************************)
M(x, y) == Cmd("M", Pt(x, y))
L(x, y) == Cmd("L", Pt(x, y))
Z == Cmd("Z", <<>>)

ClipSquare == <<M(5, -5), L(15, -5), L(15, 15), L(5, 15), Z>>
Crossing == <<M(0, 0), L(10, 0)>>
Outside == <<M(0, 20), L(3, 20)>>
Curvy == <<M(6, 1), Cmd("C", <<R(6), R(2), R(8), R(2), R(9), R(1)>>),
           Cmd("Q", <<R(7), R(7), R(8), R(2)>>)>>
Broken == <<M(6, 0), L(8, 0), Z, L(9, 9)>>
NoCommands == <<>>

PathNode(d) == [tag |-> "path", d |-> d]
NodePool ==
    {PathNode(d) : d \in {ClipSquare, Crossing, Outside, Curvy, Broken, NoCommands}}
    \cup {[tag |-> "g", d |-> <<>>], [tag |-> "rect", d |-> <<>>]}

Msg(kind, id, text) == [kind |-> kind, id |-> id, text |-> text]
\* self.curve_error, given to inkex.errormsg before sys.exit()
CurveError == Msg("curve_error", 0, "")
EmptyNotice(id) == Msg("empty", id, "clipped to nothing, will not be updated")
GroupNotice(id) == Msg("group", id, "will be ignored")
NotPathNotice(id) == Msg("notpath", id, "is not of type path")
\* '{}: {}'.format(id, err)
PathError(id, err) == Msg("path_error", id, err)

NoClipper == [isNone |-> TRUE, v |-> <<>>]
Clipper(v) == [isNone |-> FALSE, v |-> v]

WriteBackAlways(node, clipped_segments) ==
    [node EXCEPT !.d = line_segments_to_simple_path(clipped_segments)]

\* lines 251-256: the path is put back only when something is left of it
WriteBack(node, clipped_segments) ==
    IF Len(clipped_segments) # 0
    THEN [node EXCEPT !.d = line_segments_to_simple_path(clipped_segments)]
    ELSE node

ReportNothing(out, messages) == out

\* lines 262-263
Report(out, messages) == out \o messages

\* line 245 / 249: the errors of one path, in the order the set is iterated
ExtendErrors(messages, id, order) ==
    messages \o [i \in 1..Len(order) |-> PathError(id, order[i])]

\* the variables of a routine that a behaviour does not run
IdleEffect ==
    /\ doc0 = <<>> /\ doc = <<>> /\ idx = 0 /\ clipping_line_segments = NoClipper
    /\ error_messages = <<>> /\ emitted = <<>> /\ pc = "idle"
IdleSeg == seg_path = <<>> /\ seg_k = 0 /\ seg_st = SegInit
IdleBuild == bld_segs = <<>> /\ bld_k = 0 /\ bld_st = BuildInit
IdleClip ==
    /\ clp_S = <<>> /\ clp_B = <<>> /\ clp_round = 0 /\ clp_li = 0 /\ clp_bi = 0
    /\ lines_write = <<>> /\ clipped_lines = <<>> /\ clp_first = <<>> /\ clp_pc = "idle"

InitEffect ==
    /\ mode = "effect"
    /\ doc0 \in (SeqsUpTo(NodePool, MaxSel) \ {<<>>})
    /\ doc = doc0
    /\ idx = 0
    /\ clipping_line_segments = NoClipper
    /\ error_messages = <<>>
    /\ emitted = <<>>
    /\ pc = "loop"
    /\ IdleSeg /\ IdleBuild /\ IdleClip

Looping == mode = "effect" /\ pc = "loop" /\ idx < Len(doc)
Node == doc[idx + 1]
Segmented == simple_path_to_line_segments(Node.d)
Clipped == clip_line_segments(Segmented.line_segments, clipping_line_segments.v)
Rest == <<mode, doc0, seg_path, seg_k, seg_st, bld_segs, bld_k, bld_st,
          clp_S, clp_B, clp_round, clp_li, clp_bi, lines_write, clipped_lines,
          clp_first, clp_pc>>

\* lines 243-245: the first path is the clipper
EffectClipper ==
    /\ Looping /\ Node.tag = "path" /\ clipping_line_segments.isNone
    /\ clipping_line_segments' = Clipper(Segmented.line_segments)
    /\ \E order \in Orders(Segmented.errors) :
          error_messages' = ExtendErrors(error_messages, idx + 1, order)
    /\ idx' = idx + 1
    /\ UNCHANGED <<doc, emitted, pc>> /\ UNCHANGED Rest

\* lines 251-253, with clipped_segments computed
PutBack(r) ==
    /\ r.st = "ok" /\ Len(r.v) # 0
    /\ doc' = [doc EXCEPT ![idx + 1] = WriteBack(Node, r.v)]
    /\ UNCHANGED emitted

\* lines 254-256, with clipped_segments computed
LeaveAlone(r) ==
    /\ r.st = "ok" /\ Len(r.v) = 0
    /\ doc' = [doc EXCEPT ![idx + 1] = WriteBack(Node, r.v)]
    /\ emitted' = Append(emitted, EmptyNotice(idx + 1))

\* lines 248-253: a later path is clipped and put back
EffectClip ==
    /\ Looping /\ Node.tag = "path" /\ ~clipping_line_segments.isNone
    /\ PutBack(Clipped)
    /\ \E order \in Orders(Segmented.errors) :
          error_messages' = ExtendErrors(error_messages, idx + 1, order)
    /\ idx' = idx + 1
    /\ UNCHANGED <<clipping_line_segments, pc>> /\ UNCHANGED Rest

\* lines 248-256: a later path is clipped to nothing
EffectClippedToNothing ==
    /\ Looping /\ Node.tag = "path" /\ ~clipping_line_segments.isNone
    /\ LeaveAlone(Clipped)
    /\ \E order \in Orders(Segmented.errors) :
          error_messages' = ExtendErrors(error_messages, idx + 1, order)
    /\ idx' = idx + 1
    /\ UNCHANGED <<clipping_line_segments, pc>> /\ UNCHANGED Rest

\* lines 144-146 reached from line 250: inkex.errormsg(self.curve_error); sys.exit()
EffectExit ==
    /\ Looping /\ Node.tag = "path" /\ ~clipping_line_segments.isNone
    /\ Clipped.st = "exit"
    /\ \E order \in Orders(Segmented.errors) :
          error_messages' = ExtendErrors(error_messages, idx + 1, order)
    /\ emitted' = Append(emitted, CurveError)
    /\ pc' = "exited"
    /\ UNCHANGED <<doc, idx, clipping_line_segments>> /\ UNCHANGED Rest

\* an IndexError outside line_intersection's try (mid_point, max_x) is not caught
EffectCrash ==
    /\ Looping /\ Node.tag = "path" /\ ~clipping_line_segments.isNone
    /\ Clipped.st = "crash"
    /\ \E order \in Orders(Segmented.errors) :
          error_messages' = ExtendErrors(error_messages, idx + 1, order)
    /\ pc' = "crashed"
    /\ UNCHANGED <<doc, idx, clipping_line_segments, emitted>> /\ UNCHANGED Rest

\* lines 257-258
EffectGroup ==
    /\ Looping /\ Node.tag = "g"
    /\ emitted' = Append(emitted, GroupNotice(idx + 1))
    /\ idx' = idx + 1
    /\ UNCHANGED <<doc, clipping_line_segments, error_messages, pc>> /\ UNCHANGED Rest

\* lines 259-260
EffectOther ==
    /\ Looping /\ Node.tag \notin {"path", "g"}
    /\ emitted' = Append(emitted, NotPathNotice(idx + 1))
    /\ idx' = idx + 1
    /\ UNCHANGED <<doc, clipping_line_segments, error_messages, pc>> /\ UNCHANGED Rest

\* lines 262-263
EffectReport ==
    /\ mode = "effect" /\ pc = "loop" /\ idx = Len(doc)
    /\ emitted' = Report(emitted, error_messages)
    /\ pc' = "done"
    /\ UNCHANGED <<doc, idx, clipping_line_segments, error_messages>> /\ UNCHANGED Rest

NextEffect ==
    \/ EffectClipper
    \/ EffectClip
    \/ EffectClippedToNothing
    \/ EffectExit
    \/ EffectCrash
    \/ EffectGroup
    \/ EffectOther
    \/ EffectReport

Spec == InitEffect /\ [][NextEffect]_vars


(***************************************************************************)
(* simple_path_to_line_segments run on its own, one command per step.      *)
(***************************************************************************)
CurveTo == Cmd("C", <<R(1), R(1), R(2), R(2), R(5), R(6)>>)
QuadTo == Cmd("Q", <<R(7), R(7), R(8), R(2)>>)
SegAlphabet == {M(0, 0), M(3, 4), L(0, 0), L(3, 4), Z, CurveTo, QuadTo}
\* path data is empty or begins with a moveto
SegPaths ==
    {p \in SeqsUpTo(SegAlphabet, MaxCmds) : Len(p) > 0 => p[1].cmd = "M"}

InitSeg ==
    /\ mode = "seg"
    /\ seg_path \in SegPaths
    /\ seg_k = 0
    /\ seg_st = SegInit
    /\ IdleEffect /\ IdleBuild /\ IdleClip

SegFrame == UNCHANGED <<mode, seg_path>> /\ UNCHANGED <<effectVars, bldVars, clpVars>>
SegNext(c) == mode = "seg" /\ seg_k < Len(seg_path) /\ seg_path[seg_k + 1].cmd = c

\* lines 100-102, 114
SegMoveTo ==
    /\ SegNext("M")
    /\ seg_st' = SegStep(seg_st, seg_path[seg_k + 1])
    /\ seg_k' = seg_k + 1
    /\ SegFrame

\* lines 103-104, 114
SegLineTo ==
    /\ SegNext("L")
    /\ seg_st' = SegStep(seg_st, seg_path[seg_k + 1])
    /\ seg_k' = seg_k + 1
    /\ SegFrame

\* lines 105-107, 114
SegClose ==
    /\ SegNext("Z")
    /\ seg_st' = SegStep(seg_st, seg_path[seg_k + 1])
    /\ seg_k' = seg_k + 1
    /\ SegFrame

\* lines 108-111, 114
SegCurve ==
    /\ SegNext("C")
    /\ seg_st' = SegStep(seg_st, seg_path[seg_k + 1])
    /\ seg_k' = seg_k + 1
    /\ SegFrame

\* lines 112-114
SegUnsupported ==
    /\ mode = "seg" /\ seg_k < Len(seg_path)
    /\ seg_path[seg_k + 1].cmd \notin {"M", "L", "Z", "C"}
    /\ seg_st' = SegStep(seg_st, seg_path[seg_k + 1])
    /\ seg_k' = seg_k + 1
    /\ SegFrame

NextSeg == SegMoveTo \/ SegLineTo \/ SegClose \/ SegCurve \/ SegUnsupported

SpecSeg == InitSeg /\ [][NextSeg]_vars

(***************************************************************************)
(* line_segments_to_simple_path run on its own, one segment per step.      *)
(***************************************************************************)
BuildPoints ==
    {Pt(0, 0), <<Q(1, 10000), R(0)>>, <<R(0), Q(1, 5000)>>, Pt(1, 1)}
BuildSegs == BuildPoints \X BuildPoints

InitBuild ==
    /\ mode = "build"
    /\ bld_segs \in SeqsUpTo(BuildSegs, MaxSegs)
    /\ bld_k = 0
    /\ bld_st = BuildInit
    /\ IdleEffect /\ IdleSeg /\ IdleClip

\* line 131 is executed: the path moves before it draws
BuildMove ==
    /\ mode = "build" /\ bld_k < Len(bld_segs)
    /\ NeedsMove(bld_st, bld_segs[bld_k + 1][1])
    /\ bld_st' = BuildStep(bld_st, bld_segs[bld_k + 1])
    /\ bld_k' = bld_k + 1
    /\ UNCHANGED <<mode, bld_segs>> /\ UNCHANGED <<effectVars, segVars, clpVars>>

\* line 131 is skipped
BuildContinue ==
    /\ mode = "build" /\ bld_k < Len(bld_segs)
    /\ ~NeedsMove(bld_st, bld_segs[bld_k + 1][1])
    /\ bld_st' = BuildStep(bld_st, bld_segs[bld_k + 1])
    /\ bld_k' = bld_k + 1
    /\ UNCHANGED <<mode, bld_segs>> /\ UNCHANGED <<effectVars, segVars, clpVars>>

NextBuild == BuildMove \/ BuildContinue

SpecBuild == InitBuild /\ [][NextBuild]_vars

(***************************************************************************)
(* clip_line_segments run on its own, and run again on its own result:     *)
(* one step per boundary segment of clip_line, one per cull.               *)
(***************************************************************************)
Sg(x0, y0, x1, y1) == <<Pt(x0, y0), Pt(x1, y1)>>
Polygon(ps) == [i \in 1..Len(ps) |-> <<ps[i], ps[(i % Len(ps)) + 1]>>]
Square(x0, y0, x1, y1) == Polygon(<<Pt(x0, y0), Pt(x1, y0), Pt(x1, y1), Pt(x0, y1)>>)
Triangle == Polygon(<<Pt(0, 0), Pt(4, 1), Pt(0, 2)>>)
TinySquare ==
    Polygon(<< <<Q(1, 200), Q(-1, 400)>>, <<Q(3, 200), Q(-1, 400)>>,
               <<Q(3, 200), Q(1, 400)>>, <<Q(1, 200), Q(1, 400)>> >>)

Boundaries ==
    {Square(5, -5, 15, 15), Square(-5, -5, 15, 15), Square(-2, 0, 0, 2), Triangle,
     TinySquare, <<>>}

SubjectSegs ==
    {Sg(0, 0, 10, 0), Sg(10, 0, 10, 10), Sg(10, 0, 20, 0), Sg(1, 1, 2, 1),
     Sg(-3, 1, -1, 1), Sg(3, 1, 5, 1), Sg(0, 20, 3, 20),
     <<Pt(0, 0), <<Q(1, 100), R(0)>>>>,
     <<<<>>, Pt(9, 9)>>}

InitClip ==
    /\ mode = "clip"
    /\ clp_S \in (SeqsUpTo(SubjectSegs, MaxSubj) \ {<<>>})
    /\ clp_B \in Boundaries
    /\ clp_round = 1
    /\ clp_li = 0 /\ clp_bi = 0
    /\ lines_write = <<>> /\ clipped_lines = <<>> /\ clp_first = <<>>
    /\ clp_pc = "next"
    /\ IdleEffect /\ IdleSeg /\ IdleBuild

ClipFrame == UNCHANGED mode /\ UNCHANGED <<effectVars, segVars, bldVars>>

\* line 229 takes the next line; line 205
ClipTakeLine ==
    /\ mode = "clip" /\ clp_pc = "next" /\ clp_li < Len(clp_S)
    /\ clp_li' = clp_li + 1
    /\ lines_write' = <<clp_S[clp_li + 1]>>
    /\ clp_bi' = 0
    /\ clp_pc' = "split"
    /\ UNCHANGED <<clp_S, clp_B, clp_round, clipped_lines, clp_first>> /\ ClipFrame

SplitOutcome(r) ==
    /\ r.st = "ok"
    /\ lines_write' = r.v
    /\ clp_bi' = clp_bi + 1
    /\ UNCHANGED clp_pc

\* lines 206-215: the working list against the next boundary segment
ClipSplit ==
    /\ mode = "clip" /\ clp_pc = "split" /\ clp_bi < Len(clp_B)
    /\ SplitOutcome(clip_line_step(lines_write, clp_B[clp_bi + 1]))
    /\ UNCHANGED <<clp_S, clp_B, clp_round, clp_li, clipped_lines, clp_first>> /\ ClipFrame

\* lines 144-146
ClipSplitExit ==
    /\ mode = "clip" /\ clp_pc = "split" /\ clp_bi < Len(clp_B)
    /\ clip_line_step(lines_write, clp_B[clp_bi + 1]).st = "exit"
    /\ clp_pc' = "exited"
    /\ UNCHANGED <<clp_S, clp_B, clp_round, clp_li, clp_bi, lines_write, clipped_lines,
                   clp_first>>
    /\ ClipFrame

CullOutcome(c) ==
    /\ c.st = "ok"
    /\ clipped_lines' = clipped_lines \o c.v
    /\ clp_pc' = "next"

\* line 230: clip_line has returned; the pieces are culled and kept
ClipCull ==
    /\ mode = "clip" /\ clp_pc = "split" /\ clp_bi = Len(clp_B)
    /\ CullOutcome(cull_one(lines_write, clp_B))
    /\ UNCHANGED <<clp_S, clp_B, clp_round, clp_li, clp_bi, lines_write, clp_first>>
    /\ ClipFrame

\* the IndexError of mid_point is not caught
ClipCullCrash ==
    /\ mode = "clip" /\ clp_pc = "split" /\ clp_bi = Len(clp_B)
    /\ cull_one(lines_write, clp_B).st = "crash"
    /\ clp_pc' = "crashed"
    /\ UNCHANGED <<clp_S, clp_B, clp_round, clp_li, clp_bi, lines_write, clipped_lines,
                   clp_first>>
    /\ ClipFrame

\* line 231 of the first call; the result is clipped again by the same boundary
ClipAgain ==
    /\ mode = "clip" /\ clp_pc = "next" /\ clp_li = Len(clp_S) /\ clp_round = 1
    /\ clp_first' = clipped_lines
    /\ clp_S' = clipped_lines
    /\ clp_round' = 2
    /\ clp_li' = 0 /\ clp_bi' = 0 /\ lines_write' = <<>> /\ clipped_lines' = <<>>
    /\ UNCHANGED <<clp_B, clp_pc>> /\ ClipFrame

\* line 231 of the second call
ClipReturn ==
    /\ mode = "clip" /\ clp_pc = "next" /\ clp_li = Len(clp_S) /\ clp_round = 2
    /\ clp_pc' = "done"
    /\ UNCHANGED <<clp_S, clp_B, clp_round, clp_li, clp_bi, lines_write, clipped_lines,
                   clp_first>>
    /\ ClipFrame

NextClip ==
    \/ ClipTakeLine
    \/ ClipSplit
    \/ ClipSplitExit
    \/ ClipCull
    \/ ClipCullCrash
    \/ ClipAgain
    \/ ClipReturn

SpecClip == InitClip /\ [][NextClip]_vars


(***************************************************************************)
(* What the claims speak of, stated from the selection as it was handed    *)
(* to effect().                                                            *)
(***************************************************************************)
IsPath(j) == doc0[j].tag = "path"
IsSubject(j) == IsPath(j) /\ \E i \in 1..(j - 1) : IsPath(i)
FirstPath == CHOOSE i \in 1..Len(doc0) : IsPath(i) /\ \A h \in 1..(i - 1) : ~IsPath(h)
SegmentsOf(j) == simple_path_to_line_segments(doc0[j].d).line_segments
ErrorsOf(j) == simple_path_to_line_segments(doc0[j].d).errors
ResultOf(j) == clip_line_segments(SegmentsOf(j), SegmentsOf(FirstPath))
Emitted(m) == \E n \in 1..Len(emitted) : emitted[n] = m
HasMalformed(segs) == \E n \in 1..Len(segs) : ~WellFormedSeg(segs[n])
\* clipping subject j hands line_intersection an endpoint with fewer than two components
HitsMalformed(j) ==
    /\ IsSubject(j)
    /\ SegmentsOf(j) # <<>> /\ SegmentsOf(FirstPath) # <<>>
    /\ (HasMalformed(SegmentsOf(j)) \/ HasMalformed(SegmentsOf(FirstPath)))
IsPathError(m) == m.kind = "path_error"
IsNotPathError(m) == m.kind # "path_error"
IsWarning(m) == m.kind \in {"path_error", "empty"}

\* C1: in effect(), a subject whose clip result is empty keeps its drawing
\* commands and a "clipped to nothing" notice naming it is emitted; a subject's
\* commands change only when its clip result is non-empty.
C1Case(j, r) ==
    r.st = "ok" =>
        /\ r.v = <<>> => (doc[j] = doc0[j] /\ Emitted(EmptyNotice(j)))
        /\ doc[j] # doc0[j] => r.v # <<>>
C1_EmptyClipLeavesSubject ==
    mode = "effect" => \A j \in 1..idx : IsSubject(j) => C1Case(j, ResultOf(j))

C1_Witness ==
    /\ mode = "effect" /\ pc = "done"
    /\ \E j \in 1..Len(doc) :
          /\ IsSubject(j) /\ doc0[j].d # <<>>
          /\ ResultOf(j) = Ok(<<>>)
          /\ doc[j] = doc0[j] /\ Emitted(EmptyNotice(j))
    /\ \E j \in 1..Len(doc) : IsSubject(j) /\ doc[j] # doc0[j]

C9AtEnd(pe) ==
    /\ Range(pe) = {PathError(j, e) : <<j, e>> \in
                      UNION {{<<i, x>> : x \in ErrorsOf(i)} :
                             i \in {h \in 1..Len(doc0) : IsPath(h)}}}
    /\ Len(pe) = Cardinality(Range(pe))
    /\ \A a, b \in 1..Len(pe) : a < b => pe[a].id <= pe[b].id
    /\ emitted = SelectSeq(emitted, IsNotPathError) \o pe
Emits(c) == c.cmd \in {"L", "Z", "C"}
LastSegment == seg_st.line_segments[Len(seg_st.line_segments)]
CurveEnd(c) == <<c.args[5], c.args[6]>>

\* C6: the segment emitted by the LineTo, Close or curve command that follows
\* a curve command starts at the curve's endpoint.
C6_CurveEndpointIsVertex ==
    (mode = "seg" /\ seg_k >= 2 /\ seg_path[seg_k - 1].cmd = "C" /\ Emits(seg_path[seg_k]))
        => LastSegment[1] = CurveEnd(seg_path[seg_k - 1])

\* C7: the segment emitted by the LineTo or curve command that directly
\* follows a Close starts at the subpath-start point, the point the Close's
\* own segment ends at.
C7_CloseReturnsToStart ==
    (mode = "seg" /\ seg_k >= 2 /\ seg_path[seg_k - 1].cmd = "Z"
     /\ seg_path[seg_k].cmd \in {"L", "C"})
        => LastSegment[1] = seg_st.line_segments[Len(seg_st.line_segments) - 1][2]

(***************************************************************************)
(* The path builder.                                                       *)
(***************************************************************************)
Within(p, q) ==
    /\ RLe(RAbs(RSub(p[1], q[1])), <<1, 10000>>)
    /\ RLe(RAbs(RSub(p[2], q[2])), <<1, 10000>>)

RECURSIVE Expected(_, _)
Expected(segs, k) ==
    IF k = 0 THEN <<>>
    ELSE Expected(segs, k - 1)
         \o (IF k = 1 THEN <<Cmd("M", segs[k][1])>>
             ELSE IF ~Within(segs[k - 1][2], segs[k][1]) THEN <<Cmd("M", segs[k][1])>>
             ELSE <<>>)
         \o <<Cmd("L", segs[k][2])>>

\* C8: after k segments the builder has emitted, in order and per segment, a
\* MoveTo(from) exactly when the segment is the first or the previous end is
\* not within tolerance of from in x and in y, then one LineTo(to); it never
\* emits a Close.
C8_BuilderOutput ==
    mode = "build" =>
        /\ bld_st.path = Expected(bld_segs, bld_k)
        /\ \A n \in 1..Len(bld_st.path) : bld_st.path[n].cmd \in {"M", "L"}
        /\ Cardinality({n \in 1..Len(bld_st.path) : bld_st.path[n].cmd = "L"}) = bld_k

C8_Witness ==
    /\ mode = "build" /\ bld_k = 2 /\ Len(bld_segs) = 2
    /\ bld_segs[1][2] # bld_segs[2][1]
    /\ Within(bld_segs[1][2], bld_segs[2][1])
    /\ Len(bld_st.path) = 3

(***************************************************************************)
(* The clipping engine.  Ground truth is exact: no tolerance.              *)
(***************************************************************************)
Cross(o, a, b) ==
    RSub(RMul(RSub(a[1], o[1]), RSub(b[2], o[2])),
         RMul(RSub(a[2], o[2]), RSub(b[1], o[1])))
Closed(B) ==
    /\ Len(B) >= 3
    /\ \A n \in 1..Len(B) : WellFormedSeg(B[n]) /\ B[n][2] = B[(n % Len(B)) + 1][1]
Convex(B) ==
    \/ \A n \in 1..Len(B) : RLt(Zero, Cross(B[n][1], B[n][2], B[(n % Len(B)) + 1][2]))
    \/ \A n \in 1..Len(B) : RLt(Cross(B[n][1], B[n][2], B[(n % Len(B)) + 1][2]), Zero)
\* strictly inside a closed convex outline: strictly on one side of every edge
StrictlyInside(p, B) ==
    \/ \A n \in 1..Len(B) : RLt(Zero, Cross(B[n][1], B[n][2], p))
    \/ \A n \in 1..Len(B) : RLt(Cross(B[n][1], B[n][2], p), Zero)
AllWellFormed(S) == \A n \in 1..Len(S) : WellFormedSeg(S[n])
Xs(S) == UNION {{S[n][1][1], S[n][2][1]} : n \in 1..Len(S)}
Ys(S) == UNION {{S[n][1][2], S[n][2][2]} : n \in 1..Len(S)}
AllBelow(A, B) == \A a \in A, b \in B : RLt(a, b)
BoxesDisjoint(S, B) ==
    \/ AllBelow(Xs(S), Xs(B)) \/ AllBelow(Xs(B), Xs(S))
    \/ AllBelow(Ys(S), Ys(B)) \/ AllBelow(Ys(B), Ys(S))
\* the first call of clip_line_segments has just returned clipped_lines
FirstResultReady ==
    mode = "clip" /\ clp_round = 1 /\ clp_pc = "next" /\ clp_li = Len(clp_S)

\* C2: a subject all of whose segments lie strictly inside a closed (convex)
\* boundary is returned as it is, nothing split and nothing culled.
C2_InsideSubjectUnchanged ==
    (/\ FirstResultReady /\ Closed(clp_B) /\ Convex(clp_B) /\ AllWellFormed(clp_S)
     /\ \A n \in 1..Len(clp_S) :
           StrictlyInside(clp_S[n][1], clp_B) /\ StrictlyInside(clp_S[n][2], clp_B))
        => clipped_lines = clp_S

\* C3: a subject whose bounding box is disjoint from that of a closed boundary
\* is clipped to the empty segment set.
C3_DisjointBoxesClipToNothing ==
    (/\ FirstResultReady /\ Closed(clp_B) /\ AllWellFormed(clp_S)
     /\ BoxesDisjoint(clp_S, clp_B))
        => clipped_lines = <<>>

\* C4: clipping the result of a clip again by the same boundary yields the
\* same segments in the same order.
C4_ClipIdempotent ==
    (mode = "clip" /\ clp_pc = "done") => clipped_lines = clp_first

\* w and b are not parallel and meet at a point strictly between w's ends
CrossesAt(w, b, den, tn, sn) ==
    /\ den # Zero
    /\ RLt(Zero, RDiv(tn, den)) /\ RLt(RDiv(tn, den), One)
    /\ RLe(Zero, RDiv(sn, den)) /\ RLe(RDiv(sn, den), One)
CrossesInterior(w, b) ==
    CrossesAt(w, b,
              Cross(<<Zero, Zero>>, <<RSub(w[2][1], w[1][1]), RSub(w[2][2], w[1][2])>>,
                    <<RSub(b[2][1], b[1][1]), RSub(b[2][2], b[1][2])>>),
              Cross(w[1], b[1], b[2]),
              Cross(w[1], b[1], w[2]))

\* C10: when clip_line has processed every boundary segment, no piece of the
\* working list is crossed by a boundary segment at a point of its interior.
C10_NoInteriorCrossingAfterSplit ==
    (mode = "clip" /\ clp_pc = "split" /\ clp_bi = Len(clp_B))
        => \A n \in 1..Len(lines_write), m \in 1..Len(clp_B) :
              ~CrossesInterior(lines_write[n], clp_B[m])

====
